---- MODULE Spec2Model ----
(***************************************************************************)
(* Verification model of the IcomQaAi repository.                          *)
(*                                                                         *)
(*   Spec         the Test Agent page (TestAgentPage): the React state of  *)
(*                one page instance, the user's actions on the rendered    *)
(*                controls and the events of the chat stream.              *)
(*   SpecKb       the analytics backend's write path: comments and         *)
(*                knowledge-base rows behind the REST endpoints, with two  *)
(*                concurrent updateKnowledgeBaseItem calls.                *)
(*   SpecPlanner  the planning node's bounded retrieval loop.              *)
(*                                                                         *)
(* Texts are sequences of fragments: <<" ", "a">> is the text " a".        *)
(* null is the empty text where the code only tests truthiness.            *)
(***************************************************************************)
EXTENDS Integers, Sequences, FiniteSets, TLC

VARIABLES
    \* ---- TestAgentPage (React state and refs)
    sessionId,           \* useState sessionId, set by the mount effect
    messages,            \* useState messages: Message[]
    inputValue,          \* useState inputValue
    isLoading,           \* useState isLoading
    botThoughts,         \* useState botThoughts
    mcqInteractions,     \* useState Record<string, MCQInteractionState>
    ticketInteractions,  \* useState Record<string, TicketInteractionState>
    isChatDisabled,      \* useState isChatDisabled
    currentMessageRef,   \* useRef currentMessageRef.current
    now,                 \* the last value Date.now() returned
    burst,               \* TRUE while the stream loop may still be in millisecond `now`
    inflight,            \* the chat requests whose handler has not reached finally
    mcqAnswers,          \* history: MCQ message id -> number of answers sent for it
    uncaughtError,       \* TRUE once an event handler of the page has thrown
    \* ---- analytics backend (database rows and running update calls)
    kbTable,             \* customer_support_chatbot_data rows by id
    comments,            \* comments rows by id
    dbClock,             \* the database server's new Date()
    calls,               \* the updateKnowledgeBaseItem calls: read done, update pending or done
    response,            \* the last HTTP response the backend sent: its status and
                         \* the categories of each knowledge-base item in its body
    \* ---- planning node
    plannerState,        \* state of the planning state machine
    retrieval_attempt_count,
    issuedQueries,       \* sub-queries issued in the current cycle
    evidence,            \* whether the evidence gathered so far is adequate
    ticketStarted,       \* whether a ticket was built / submitted in this session
    indexBuilds,         \* BM25 indexes built since the process started
    \* ---- analytics backend (metrics queries)
    chatTable,           \* customer_support_chatbot_ai rows in id order
    supportRequests,     \* session ids of the support_requests rows
    recentCall,          \* the fetchRecentSessions call: its position and locals
    recentResult,        \* what fetchRecentSessions returned
    askedAt,             \* date_asked of the customer_support_chatbot_ai rows
    supportAddedAt,      \* date_added of the support_requests rows
    hourlyCall,          \* the fetchHourlyMetrics call: its position and locals
    hourlyResult         \* what fetchHourlyMetrics returned

pageVars == <<sessionId, messages, inputValue, isLoading, botThoughts,
              mcqInteractions, ticketInteractions, isChatDisabled,
              currentMessageRef, now, burst, inflight, mcqAnswers, uncaughtError>>
kbVars == <<kbTable, comments, dbClock, calls, response>>
plannerVars == <<plannerState, retrieval_attempt_count, issuedQueries, evidence,
                 ticketStarted, indexBuilds>>
metricsVars == <<chatTable, supportRequests, recentCall, recentResult>>
hourlyVars == <<askedAt, supportAddedAt, hourlyCall, hourlyResult>>
vars == <<pageVars, kbVars, plannerVars, metricsVars, hourlyVars>>

(***************************************************************************)
(* Bounds of the model                                                     *)
(***************************************************************************)
MaxTurns == 3       \* chat requests started in one run
MaxAgentMessages == 2   \* agent messages (replies, MCQs, tickets, errors) of one run
MaxInflight == 2    \* requests the model lets run at once
MaxTicketEdits == 1 \* ticket fields the user rewrites in one run

(***************************************************************************)
(* Texts                                                                   *)
(***************************************************************************)
NullText == <<>>

RECURSIVE TrimStart(_)
TrimStart(s) ==
    IF s # <<>> /\ Head(s) = " " THEN TrimStart(Tail(s)) ELSE s

RECURSIVE TrimEnd(_)
TrimEnd(s) ==
    IF s # <<>> /\ s[Len(s)] = " " THEN TrimEnd(SubSeq(s, 1, Len(s) - 1)) ELSE s

Trim(s) == TrimEnd(TrimStart(s))

Some(f, P(_)) == \E k \in DOMAIN f : P(f[k])

(***************************************************************************)
(* Inputs                                                                  *)
(***************************************************************************)
SessionIds == {"testagent_user_1"}
InputTexts == {<<" ", "a">>}
CustomTexts == {<<"own", " ">>}
\* the reply the agent streams, token by token
ReplyTokens == <<"x", "y">>
NodeNames == {"think"}
WriteYourOwn == <<"write_your_own">>
WriteYourOwnLabel == <<"Write your own">>
McqEvents == {[question |-> <<"Q">>, answers |-> <<(<<"A">>), WriteYourOwnLabel>>]}
TicketEvents == {[category |-> <<"c">>, title |-> <<"t">>, description |-> <<"d">>]}
TicketFields == {"category", "title", "description"}
EditTexts == {<<"e">>}

NoThoughts == "null"
NoMcq == [question |-> <<>>, answers |-> <<>>]
NoTicket == [category |-> <<>>, title |-> <<>>, description |-> <<>>]
CurrentAgentMsg == <<"current_agent_msg", 0>>

Message(id, role, content, mcq, ticket) ==
    [id |-> id, role |-> role, content |-> content, mcq |-> mcq, ticket |-> ticket]

Filter(s, P(_)) == SelectSeq(s, P)
Map(s, F(_)) == [i \in 1..Len(s) |-> F(s[i])]

\* f with key k bound to v ({...prev, [k]: v})
Put(f, k, v) == [x \in DOMAIN f \cup {k} |-> IF x = k THEN v ELSE f[x]]

(***************************************************************************)
(* TestAgentPage: what the render derives from the state                   *)
(***************************************************************************)
IsSubmitted(t) == t.submitted
HasSubmittedTicket == Some(ticketInteractions, IsSubmitted)

\* handleSendMessage's own test: an MCQ without a usable answer
IsActiveMcq(m) ==
    m.selectedAnswer = NullText \/ (m.isCustomMode /\ Trim(m.customInput) = <<>>)
HasActiveMcq == Some(mcqInteractions, IsActiveMcq)

\* the render's test for the textarea, the Send button and the placeholder
IsMcqBlockingInput(m) == m.selectedAnswer = NullText \/ m.isCustomMode
McqBlocksInput == Some(mcqInteractions, IsMcqBlockingInput)

TextareaDisabled ==
    \/ isLoading
    \/ McqBlocksInput /\ ~HasSubmittedTicket
    \/ isChatDisabled /\ ~HasSubmittedTicket

SendDisabled ==
    \/ Trim(inputValue) = <<>>
    \/ isLoading
    \/ McqBlocksInput /\ ~HasSubmittedTicket
    \/ isChatDisabled /\ ~HasSubmittedTicket

IsWriteYourOwn(answer) == answer = WriteYourOwnLabel \/ answer = WriteYourOwn

\* the answers the option buttons of an MCQ message pass to handleMcqAnswerSelect
OptionClicks(mcq) ==
    LET listed == {IF IsWriteYourOwn(mcq.answers[j]) THEN WriteYourOwn
                   ELSE mcq.answers[j] : j \in 1..Len(mcq.answers)}
        extra == IF \E j \in 1..Len(mcq.answers) : IsWriteYourOwn(mcq.answers[j])
                 THEN {} ELSE {WriteYourOwn}
    IN  listed \cup extra

McqCustomSubmitDisabled(m) == Trim(m.customInput) = <<>> \/ isLoading
McqOptionSubmitRendered(m) ==
    m.selectedAnswer # NullText /\ m.selectedAnswer # WriteYourOwn
McqOptionSubmitDisabledNever == FALSE
McqOptionSubmitDisabled == isLoading

TicketInputDisabledNever(t) == FALSE
TicketInputDisabled(t) == t.submitted
TicketSubmitRendered(t) == ~t.submitted

McqMessageIds == {messages[i].id : i \in {j \in 1..Len(messages) : messages[j].mcq # NoMcq}}
TicketMessageIds ==
    {messages[i].id : i \in {j \in 1..Len(messages) : messages[j].ticket # NoTicket}}

(***************************************************************************)
(* TestAgentPage: the three send handlers up to their first await          *)
(***************************************************************************)
\* Date.now() in a click handler: the click comes after the render that showed
\* the control, in a later millisecond than every id made before it.
\* a step of the page leaves the backend and the planner alone and throws nothing
PageStep == UNCHANGED <<kbVars, plannerVars, metricsVars, hourlyVars, uncaughtError>>
UserActed == burst' = FALSE /\ PageStep

\* the user messages in the conversation: one per request started
IsUserMessage(msg) == msg.role = "user"
Turns == Len(Filter(messages, IsUserMessage))

\* body: JSON.stringify({ message, session_id: sessionId })
RequestBodyWithoutSession(content) == [message |-> content, session_id |-> ""]
RequestBody(content) == [message |-> content, session_id |-> sessionId]

StartRequest(handler, content) ==
    /\ Turns < MaxTurns
    /\ Len(inflight) < MaxInflight
    /\ messages' = Append(messages,
                          Message(<<"msg", now + 1>>, "user", content, NoMcq, NoTicket))
    /\ now' = now + 1
    /\ isLoading' = TRUE
    /\ botThoughts' = NoThoughts
    /\ currentMessageRef' = <<>>
    /\ inflight' = Append(inflight, [handler |-> handler,
                                     message |-> RequestBody(content).message,
                                     session_id |-> RequestBody(content).session_id])
    /\ UserActed

handleSendMessage ==
    /\ ~(Trim(inputValue) = <<>> \/ isLoading)
    /\ ~HasActiveMcq
    /\ ~(isChatDisabled /\ ~HasSubmittedTicket)
    /\ StartRequest("handleSendMessage", Trim(inputValue))
    /\ inputValue' = <<>>
    /\ UNCHANGED <<sessionId, mcqInteractions, ticketInteractions, isChatDisabled,
                   mcqAnswers>>

handleTicketModification ==
    /\ ~(~HasSubmittedTicket \/ Trim(inputValue) = <<>> \/ isLoading)
    /\ StartRequest("handleTicketModification", Trim(inputValue))
    /\ inputValue' = <<>>
    /\ UNCHANGED <<sessionId, mcqInteractions, ticketInteractions, isChatDisabled,
                   mcqAnswers>>

McqEffectiveAnswerUntrimmed(m) ==
    IF m.isCustomMode \/ m.selectedAnswer = WriteYourOwn
    THEN m.customInput ELSE m.selectedAnswer
McqEffectiveAnswer(m) ==
    IF m.isCustomMode \/ m.selectedAnswer = WriteYourOwn
    THEN Trim(m.customInput) ELSE m.selectedAnswer

handleMcqSubmit(messageId) ==
    /\ messageId \in DOMAIN mcqInteractions
    /\ McqEffectiveAnswer(mcqInteractions[messageId]) # NullText
    /\ StartRequest("handleMcqSubmit", McqEffectiveAnswer(mcqInteractions[messageId]))
    /\ mcqAnswers' = Put(mcqAnswers, messageId, mcqAnswers[messageId] + 1)
    /\ UNCHANGED <<sessionId, inputValue, mcqInteractions, ticketInteractions,
                   isChatDisabled>>

(***************************************************************************)
(* TestAgentPage: the user's actions on the rendered controls              *)
(***************************************************************************)
TypeInput(v) ==
    /\ ~TextareaDisabled
    /\ inputValue' = v
    /\ UserActed
    /\ UNCHANGED <<sessionId, messages, isLoading, botThoughts, mcqInteractions,
                   ticketInteractions, isChatDisabled, currentMessageRef, now,
                   inflight, mcqAnswers>>

\* Send button: onClick is handleTicketModification once a ticket is submitted
\* textarea onKeyDown with Enter and no Shift: after preventDefault the handler
\* evaluates ticketState?.submitted, and the component declares no ticketState
\* (nor does any other source), so the evaluation throws a ReferenceError
\* before either send handler is called
EnterKeyDown ==
    /\ ~TextareaDisabled
    /\ uncaughtError' = TRUE
    /\ burst' = FALSE
    /\ UNCHANGED <<sessionId, messages, inputValue, isLoading, botThoughts,
                   mcqInteractions, ticketInteractions, isChatDisabled,
                   currentMessageRef, now, inflight, mcqAnswers>>
    /\ UNCHANGED <<kbVars, plannerVars, metricsVars, hourlyVars>>

ClickSendMessage ==
    /\ ~SendDisabled
    /\ ~HasSubmittedTicket
    /\ handleSendMessage

ClickSendTicketModification ==
    /\ ~SendDisabled
    /\ HasSubmittedTicket
    /\ handleTicketModification

handleMcqAnswerSelect(messageId, answer) ==
    /\ mcqInteractions' =
         Put(mcqInteractions, messageId,
             IF answer = WriteYourOwn \/ answer = WriteYourOwnLabel
             THEN [mcqInteractions[messageId] EXCEPT !.isCustomMode = TRUE,
                                                     !.selectedAnswer = WriteYourOwn]
             ELSE [mcqInteractions[messageId] EXCEPT !.selectedAnswer = answer,
                                                     !.isCustomMode = FALSE])
    /\ UserActed
    /\ UNCHANGED <<sessionId, messages, inputValue, isLoading, botThoughts,
                   ticketInteractions, isChatDisabled, currentMessageRef, now,
                   inflight, mcqAnswers>>

ClickMcqOption(i, answer) ==
    /\ messages[i].mcq # NoMcq
    /\ ~mcqInteractions[messages[i].id].isCustomMode
    /\ answer \in OptionClicks(messages[i].mcq)
    /\ handleMcqAnswerSelect(messages[i].id, answer)

TypeMcqCustomInput(id, v) ==
    /\ id \in McqMessageIds
    /\ mcqInteractions[id].isCustomMode
    /\ mcqInteractions' = Put(mcqInteractions, id,
                              [mcqInteractions[id] EXCEPT !.customInput = v])
    /\ UserActed
    /\ UNCHANGED <<sessionId, messages, inputValue, isLoading, botThoughts,
                   ticketInteractions, isChatDisabled, currentMessageRef, now,
                   inflight, mcqAnswers>>

ClickMcqBackToOptions(id) ==
    /\ id \in McqMessageIds
    /\ mcqInteractions[id].isCustomMode
    /\ mcqInteractions' = Put(mcqInteractions, id,
                              [mcqInteractions[id] EXCEPT !.isCustomMode = FALSE,
                                                          !.customInput = <<>>])
    /\ UserActed
    /\ UNCHANGED <<sessionId, messages, inputValue, isLoading, botThoughts,
                   ticketInteractions, isChatDisabled, currentMessageRef, now,
                   inflight, mcqAnswers>>

ClickMcqCustomSubmit(id) ==
    /\ id \in McqMessageIds
    /\ mcqInteractions[id].isCustomMode
    /\ ~McqCustomSubmitDisabled(mcqInteractions[id])
    /\ handleMcqSubmit(id)

ClickMcqOptionSubmit(id) ==
    /\ id \in McqMessageIds
    /\ ~mcqInteractions[id].isCustomMode
    /\ McqOptionSubmitRendered(mcqInteractions[id])
    /\ ~McqOptionSubmitDisabled
    /\ handleMcqSubmit(id)

handleTicketSubmit(messageId) ==
    /\ messageId \in DOMAIN ticketInteractions
    /\ ticketInteractions' = Put(ticketInteractions, messageId,
                                 [ticketInteractions[messageId] EXCEPT !.submitted = TRUE])
    /\ isChatDisabled' = TRUE
    /\ UserActed
    /\ UNCHANGED <<sessionId, messages, inputValue, isLoading, botThoughts,
                   mcqInteractions, currentMessageRef, now, inflight, mcqAnswers>>

ClickTicketSubmit(id) ==
    /\ id \in TicketMessageIds
    /\ TicketSubmitRendered(ticketInteractions[id])
    /\ handleTicketSubmit(id)

SetEveryField(r, field, value) ==
    [r EXCEPT !.category = value, !.title = value, !.description = value]
SetField(r, field, value) ==
    CASE field = "category" -> [r EXCEPT !.category = value]
      [] field = "title" -> [r EXCEPT !.title = value]
      [] field = "description" -> [r EXCEPT !.description = value]

GetField(r, field) ==
    CASE field = "category" -> r.category
      [] field = "title" -> r.title
      [] field = "description" -> r.description

\* the ticket fields that hold a text the user typed
EditedFields ==
    Cardinality({p \in (DOMAIN ticketInteractions) \X TicketFields :
                    GetField(ticketInteractions[p[1]], p[2]) \in EditTexts})

handleTicketChange(messageId, field, value) ==
    LET Upd(msg) == IF msg.id = messageId /\ msg.ticket # NoTicket
                    THEN [msg EXCEPT !.ticket = SetField(msg.ticket, field, value)]
                    ELSE msg
    IN  /\ ticketInteractions' = Put(ticketInteractions, messageId,
                                     SetField(ticketInteractions[messageId], field, value))
        /\ messages' = Map(messages, Upd)
        /\ UserActed
        /\ UNCHANGED <<sessionId, inputValue, isLoading, botThoughts, mcqInteractions,
                       isChatDisabled, currentMessageRef, now, inflight, mcqAnswers>>

EditTicketField(id, field, value) ==
    /\ id \in TicketMessageIds
    /\ ~TicketInputDisabled(ticketInteractions[id])
    /\ GetField(ticketInteractions[id], field) = value \/ EditedFields < MaxTicketEdits
    /\ handleTicketChange(id, field, value)

(***************************************************************************)
(* TestAgentPage: the stream loop shared by the three handlers             *)
(* (handleSendMessage 120-234, handleMcqSubmit 322-430,                    *)
(*  handleTicketModification 529-637 hold the same code)                   *)
(***************************************************************************)
\* Date.now() inside the loop: events of one chunk can fall in one millisecond
StreamTimes == IF burst THEN {now, now + 1} ELSE {now + 1}

IsNotCurrentAgentMsg(msg) == msg.id # CurrentAgentMsg
IsAgentMessage(msg) == msg.role = "agent"
AgentMessages(msgs) == Len(Filter(msgs, IsAgentMessage))

\* setMessages of the text branch, with the already extended ref
AppendToken(prev, current) ==
    LET UpdateCurrent(msg) == IF msg.id = CurrentAgentMsg
                              THEN [msg EXCEPT !.content = current] ELSE msg
    IN  IF /\ prev # <<>>
           /\ prev[Len(prev)].role = "agent"
           /\ prev[Len(prev)].id = CurrentAgentMsg
        THEN Map(prev, UpdateCurrent)
        ELSE Append(prev, Message(CurrentAgentMsg, "agent", current, NoMcq, NoTicket))

NodeEvent(name) ==
    /\ inflight # <<>>
    /\ PageStep
    /\ botThoughts' = name
    /\ UNCHANGED <<sessionId, messages, inputValue, isLoading, mcqInteractions,
                   ticketInteractions, isChatDisabled, currentMessageRef, now, burst,
                   inflight, mcqAnswers>>

TextEvent(token) ==
    /\ inflight # <<>>
    /\ PageStep
    /\ Len(currentMessageRef) < Len(ReplyTokens)
    /\ token = <<ReplyTokens[Len(currentMessageRef) + 1]>>
    /\ AgentMessages(AppendToken(messages, currentMessageRef \o token)) <= MaxAgentMessages
    /\ currentMessageRef' = currentMessageRef \o token
    /\ messages' = AppendToken(messages, currentMessageRef')
    /\ UNCHANGED <<sessionId, inputValue, isLoading, botThoughts, mcqInteractions,
                   ticketInteractions, isChatDisabled, now, burst, inflight, mcqAnswers>>

McqEvent(data, t) ==
    LET mcqMessageId == <<"mcq", t>> IN
    /\ inflight # <<>>
    /\ PageStep
    /\ t \in StreamTimes
    /\ AgentMessages(Filter(messages, IsNotCurrentAgentMsg)) < MaxAgentMessages
    /\ messages' = Append(Filter(messages, IsNotCurrentAgentMsg),
                          Message(mcqMessageId, "agent", <<>>, data, NoTicket))
    /\ mcqInteractions' = Put(mcqInteractions, mcqMessageId,
                              [messageId |-> mcqMessageId, selectedAnswer |-> NullText,
                               customInput |-> <<>>, isCustomMode |-> FALSE])
    /\ mcqAnswers' = IF mcqMessageId \in DOMAIN mcqAnswers THEN mcqAnswers
                     ELSE Put(mcqAnswers, mcqMessageId, 0)
    /\ now' = t /\ burst' = TRUE
    /\ UNCHANGED <<sessionId, inputValue, isLoading, botThoughts, ticketInteractions,
                   isChatDisabled, currentMessageRef, inflight>>

TicketEvent(data, t) ==
    LET ticketMessageId == <<"ticket", t>> IN
    /\ inflight # <<>>
    /\ PageStep
    /\ t \in StreamTimes
    /\ AgentMessages(Filter(messages, IsNotCurrentAgentMsg)) < MaxAgentMessages
    /\ messages' = Append(Filter(messages, IsNotCurrentAgentMsg),
                          Message(ticketMessageId, "agent", <<>>, NoMcq, data))
    /\ ticketInteractions' = Put(ticketInteractions, ticketMessageId,
                                 [messageId |-> ticketMessageId,
                                  category |-> data.category, title |-> data.title,
                                  description |-> data.description, submitted |-> FALSE])
    /\ now' = t /\ burst' = TRUE
    /\ UNCHANGED <<sessionId, inputValue, isLoading, botThoughts, mcqInteractions,
                   isChatDisabled, currentMessageRef, inflight, mcqAnswers>>

ErrorText(handler) ==
    IF handler = "handleMcqSubmit"
    THEN <<"Error: Failed to send answer. Please try again.">>
    ELSE <<"Error: Failed to send message. Please try again.">>

RemoveAt(s, k) == [i \in 1..(Len(s) - 1) |-> IF i < k THEN s[i] ELSE s[i + 1]]

\* setBotThoughts(null) of the finally block
ThoughtsKept == botThoughts
ThoughtsAfterRequest == NoThoughts

\* finally { setIsLoading(false); setBotThoughts(null); currentMessageRef.current = '' }
Finally(k) ==
    /\ isLoading' = FALSE
    /\ botThoughts' = ThoughtsAfterRequest
    /\ currentMessageRef' = <<>>
    /\ inflight' = RemoveAt(inflight, k)
    /\ PageStep

\* fetch rejects, the response is not ok or has no body, or reader.read() rejects
RequestFails(k) ==
    /\ k \in 1..Len(inflight)
    /\ AgentMessages(messages) < MaxAgentMessages
    /\ messages' = Append(messages,
                          Message(<<"error", now + 1>>, "agent",
                                  ErrorText(inflight[k].handler), NoMcq, NoTicket))
    /\ now' = now + 1 /\ burst' = FALSE
    /\ Finally(k)
    /\ UNCHANGED <<sessionId, inputValue, mcqInteractions, ticketInteractions,
                   isChatDisabled, mcqAnswers>>

\* reader.read() returns done
StreamDone(k) ==
    /\ k \in 1..Len(inflight)
    /\ Finally(k)
    /\ UNCHANGED <<sessionId, messages, inputValue, mcqInteractions,
                   ticketInteractions, isChatDisabled, now, burst, mcqAnswers>>

(***************************************************************************)
(* TestAgentPage: specification                                            *)
(***************************************************************************)
KbIdle ==
    /\ kbTable = <<>> /\ comments = <<>> /\ dbClock = 0 /\ calls = <<>>
    /\ response = [status |-> 0, categories |-> <<>>]
MetricsIdle ==
    /\ chatTable = <<>> /\ supportRequests = {}
    /\ recentCall = [pc |-> "idle"] /\ recentResult = <<>>
    /\ askedAt = <<>> /\ supportAddedAt = <<>>
    /\ hourlyCall = [pc |-> "idle"] /\ hourlyResult = <<>>
PlannerIdle ==
    /\ plannerState = "AwaitingQuestion" /\ retrieval_attempt_count = 0
    /\ issuedQueries = <<>> /\ evidence = FALSE /\ ticketStarted = FALSE
    /\ indexBuilds = 0

PageInit ==
    /\ sessionId \in SessionIds
    /\ messages = <<>>
    /\ inputValue = <<>>
    /\ isLoading = FALSE
    /\ botThoughts = NoThoughts
    /\ mcqInteractions = <<>>
    /\ ticketInteractions = <<>>
    /\ isChatDisabled = FALSE
    /\ currentMessageRef = <<>>
    /\ now = 0 /\ burst = FALSE
    /\ inflight = <<>>
    /\ mcqAnswers = <<>>
    /\ uncaughtError = FALSE

Init == PageInit /\ KbIdle /\ PlannerIdle /\ MetricsIdle

Next ==
    \/ \E v \in InputTexts : TypeInput(v)
    \/ EnterKeyDown
    \/ ClickSendMessage
    \/ ClickSendTicketModification
    \/ \E i \in 1..Len(messages) : \E a \in {<<"A">>, WriteYourOwn} : ClickMcqOption(i, a)
    \/ \E id \in McqMessageIds : \E v \in CustomTexts : TypeMcqCustomInput(id, v)
    \/ \E id \in McqMessageIds : ClickMcqBackToOptions(id)
    \/ \E id \in McqMessageIds : ClickMcqCustomSubmit(id)
    \/ \E id \in McqMessageIds : ClickMcqOptionSubmit(id)
    \/ \E id \in TicketMessageIds : ClickTicketSubmit(id)
    \/ \E id \in TicketMessageIds : \E f \in TicketFields : \E v \in EditTexts :
           EditTicketField(id, f, v)
    \/ \E n \in NodeNames : NodeEvent(n)
    \/ \E tok \in {<<ReplyTokens[j]>> : j \in 1..Len(ReplyTokens)} : TextEvent(tok)
    \/ \E d \in McqEvents : \E t \in StreamTimes : McqEvent(d, t)
    \/ \E d \in TicketEvents : \E t \in StreamTimes : TicketEvent(d, t)
    \/ \E k \in 1..MaxInflight : RequestFails(k)
    \/ \E k \in 1..MaxInflight : StreamDone(k)

Spec == Init /\ [][Next]_vars

(***************************************************************************)
(* TestAgentPage: claims                                                   *)
(***************************************************************************)
\* a step taken by the stream loop of a running request or by its catch block
StreamStep ==
    \/ \E n \in NodeNames : NodeEvent(n)
    \/ \E tok \in {<<ReplyTokens[j]>> : j \in 1..Len(ReplyTokens)} : TextEvent(tok)
    \/ \E d \in McqEvents : \E t \in StreamTimes : McqEvent(d, t)
    \/ \E d \in TicketEvents : \E t \in StreamTimes : TicketEvent(d, t)
    \/ \E k \in 1..MaxInflight : RequestFails(k)

\* position of the user message that opened the running turn (0 if none)
LastUserIndex ==
    LET us == {i \in 1..Len(messages) : messages[i].role = "user"}
    IN  IF us = {} THEN 0 ELSE CHOOSE i \in us : \A j \in us : j <= i

\* C1: the history is append-only: no event of a turn changes or removes a
\* message that was in the history before that turn's user message was sent.
C1_HistoryAppendOnly ==
    [][StreamStep =>
         \A i \in 1..(LastUserIndex - 1) :
             i <= Len(messages') /\ messages'[i] = messages[i]]_vars

OpenMcqs ==
    {i \in 1..Len(messages) :
        messages[i].mcq # NoMcq /\ mcqAnswers[messages[i].id] = 0}

\* C2: at most one MCQ to which no answer has been sent is in the conversation.
C2_AtMostOneOpenMcq == Cardinality(OpenMcqs) <= 1

\* C3: at most one chat request of the session is in flight at any time.
C3_OneRequestInFlight == Len(inflight) <= 1

\* C3 witness: a request is running while an MCQ answer is selected and its
\* Submit button rendered, so that only isLoading keeps a second request back.
C3_Witness ==
    /\ Len(inflight) = 1 /\ isLoading
    /\ \E id \in McqMessageIds :
          /\ ~mcqInteractions[id].isCustomMode
          /\ McqOptionSubmitRendered(mcqInteractions[id])

\* C4: once a ticket has been submitted, every request that starts is started by
\* handleTicketModification.
C4_OnlyTicketModificationAfterSubmit ==
    [][HasSubmittedTicket /\ Len(inflight') > Len(inflight) =>
         inflight'[Len(inflight')].handler = "handleTicketModification"]_vars

TicketMessages(msgs, id) ==
    LET IsThatTicket(msg) == msg.id = id /\ msg.ticket # NoTicket
    IN  Filter(msgs, IsThatTicket)

\* C5: a submitted ticket never changes: its submitted flag stays true and its
\* category, title and description stay as they are, in the interaction state and
\* in the ticket message.
C5_SubmittedTicketImmutable ==
    [][\A id \in DOMAIN ticketInteractions :
          ticketInteractions[id].submitted =>
             /\ id \in DOMAIN ticketInteractions'
             /\ ticketInteractions'[id] = ticketInteractions[id]
             /\ TicketMessages(messages', id) = TicketMessages(messages, id)]_vars

\* C5 witness: a ticket is submitted and an edit instruction has been sent for it.
C5_Witness ==
    /\ HasSubmittedTicket
    /\ \E k \in 1..Len(inflight) : inflight[k].handler = "handleTicketModification"

\* C6: when a request fails after text has been streamed, the partial agent
\* message does not stay in the history as it was streamed.
C6_NoPartialMessageAfterFailure ==
    [][(\E k \in 1..MaxInflight : RequestFails(k)) /\ currentMessageRef # <<>> =>
         ~\E i \in 1..Len(messages') :
             /\ messages'[i].id = CurrentAgentMsg
             /\ messages'[i].content = currentMessageRef]_vars

IsErrorMessage(msg) == msg.id[1] = "error"

\* C7: a message that is sent again after its first attempt failed before any
\* event arrived is in the history once.
C7_RetryDoesNotDuplicate ==
    ~\E i \in 1..(Len(messages) - 2) :
        /\ messages[i].role = "user"
        /\ IsErrorMessage(messages[i + 1])
        /\ messages[i + 2].role = "user"
        /\ messages[i + 2].content = messages[i].content

(***************************************************************************)
(* Analytics backend: comments and knowledge-base rows behind the REST     *)
(* endpoints. A prisma call is one atomic statement of the database; an    *)
(* await between two of them lets other requests run.                      *)
(***************************************************************************)
MaxRows == 2        \* knowledge-base rows the table may hold
MaxComments == 1    \* comments the table may hold

Undefined == <<"<undefined>">>          \* a field absent from a request body
Null == <<"<null>">>                    \* null
UndefinedCategories == <<Undefined>>
NullCategories == <<Null>>
CallIds == {1, 2}                       \* the PUT /knowledge-base/:id requests of a run

KbQuestions == {<<"q1", " ">>, <<" ">>}
KbAnswers == {<<"a1">>, <<" ">>}
KbCategories == {<<(<<" ">>), (<<"c1", " ">>)>>}

KbUpdateBodies ==
    [question : KbQuestions \cup {Undefined}, answer : KbAnswers \cup {Undefined},
     url : {Undefined}, categories : {UndefinedCategories, <<>>}]
KbCreateBodies ==
    [question : KbQuestions, answer : KbAnswers, url : {Null},
     categories : KbCategories]

Max(S) == CHOOSE x \in S : \A y \in S : y <= x
NextId(table) == IF DOMAIN table = {} THEN 1 ELSE Max(DOMAIN table) + 1

Falsy(text) == text = <<>> \/ text = Null \/ text = Undefined

\* (data.categories || []).filter(c => c && c.trim()).map(c => c.trim())
CleanCategories(categories) ==
    LET list == IF categories = NullCategories \/ categories = UndefinedCategories
                THEN <<>> ELSE categories
        Keep(c) == c # <<>> /\ Trim(c) # <<>>
    IN  Map(Filter(list, Keep), Trim)

\* (data.url || '').trim() || 'manual-entry'
CleanUrl(url) ==
    LET u == IF Falsy(url) THEN <<>> ELSE Trim(url)
    IN  IF u = <<>> THEN <<"manual-entry">> ELSE u

\* getAllKnowledgeBaseItems: orderBy: { id: 'desc' }
RECURSIVE IdsDesc(_)
IdsDesc(ids) ==
    IF ids = {} THEN <<>>
    ELSE LET greatest == CHOOSE x \in ids : \A y \in ids : y <= x
         IN  <<greatest>> \o IdsDesc(ids \ {greatest})

\* the response body of POST /, PUT /:id and GET /:id
FormatItem(item) ==
    [item EXCEPT !.categories =
        IF item.categories # NullCategories /\ Len(item.categories) > 0
        THEN item.categories ELSE NullCategories]

\* the response body of GET /: item.categories || null, and an array is truthy
FormatListItem(item) ==
    [item EXCEPT !.categories =
        IF item.categories # NullCategories THEN item.categories ELSE NullCategories]

\* res.json / the error handler: the status and, per item of the body, its categories
Respond(status, items) == response' = [status |-> status, categories |-> items]

KbStep == UNCHANGED <<pageVars, plannerVars, metricsVars, hourlyVars>>
Tick == dbClock' = dbClock + 1

\* GET /api/metrics/..., GET /api/comments, GET /api/analytics/qa: findMany, count, groupBy
GetRows(route) ==
    /\ route \in {"metrics", "comments", "analytics/qa"}
    /\ Respond(200, <<>>)
    /\ UNCHANGED <<kbTable, comments, dbClock, calls>>
    /\ KbStep

\* GET /api/knowledge-base
GetKnowledgeBase ==
    /\ LET ListCategories(id) == FormatListItem(kbTable[id]).categories
       IN  Respond(200, Map(IdsDesc(DOMAIN kbTable), ListCategories))
    /\ UNCHANGED <<kbTable, comments, dbClock, calls>>
    /\ KbStep

\* GET /api/knowledge-base/:id
GetKnowledgeBaseItem(id) ==
    /\ IF id \in DOMAIN kbTable
       THEN Respond(200, <<FormatItem(kbTable[id]).categories>>)
       ELSE Respond(404, <<>>)
    /\ UNCHANGED <<kbTable, comments, dbClock, calls>>
    /\ KbStep

\* if (!question || !answer) throw
EmptyQuestionOnly(question, answer) == question = <<>>
EmptyQuestionOrAnswer(question, answer) == question = <<>> \/ answer = <<>>

\* POST /api/knowledge-base: zod accepts any non-empty question and answer
createKnowledgeBaseItem(data) ==
    LET question == Trim(data.question)
        answer == Trim(data.answer)
        id == NextId(kbTable)
        item == [id |-> id, question |-> question, answer |-> answer,
                 url |-> CleanUrl(data.url), type |-> "manual",
                 categories |-> CleanCategories(data.categories),
                 date_added |-> dbClock]    \* not passed: the column's default
    IN  /\ IF EmptyQuestionOrAnswer(question, answer)
           THEN /\ Respond(500, <<>>)
                /\ UNCHANGED kbTable
           ELSE /\ Cardinality(DOMAIN kbTable) < MaxRows
                /\ kbTable' = Put(kbTable, id, item)
                /\ Respond(200, <<FormatItem(item).categories>>)
        /\ UNCHANGED <<comments, dbClock, calls>>
        /\ KbStep

\* PUT /api/knowledge-base/:id, up to the await of prisma.update: findUnique,
\* then updateData is prepared from the body and the row that was read
updateKnowledgeBaseItemRead(c, id, data) ==
    LET found == id \in DOMAIN kbTable
        existing == kbTable[id]
        badQuestion == data.question # Undefined /\ Trim(data.question) = <<>>
        badAnswer == data.answer # Undefined /\ Trim(data.answer) = <<>>
        updateData ==
            [date_added |-> dbClock',
             question |-> IF data.question # Undefined THEN Trim(data.question)
                          ELSE existing.question,
             answer |-> IF data.answer # Undefined THEN Trim(data.answer)
                        ELSE existing.answer,
             url |-> IF data.url # Undefined THEN CleanUrl(data.url) ELSE existing.url,
             categories |-> IF data.categories # UndefinedCategories
                            THEN CleanCategories(data.categories)
                            ELSE IF existing.categories = NullCategories THEN <<>>
                                 ELSE existing.categories]
    IN  /\ c \in CallIds \ DOMAIN calls
        /\ c = Cardinality(DOMAIN calls) + 1      \* request ids are given out in order
        /\ IF ~found \/ badQuestion \/ badAnswer
           THEN /\ calls' = Put(calls, c, [pc |-> "failed", id |-> id, data |-> <<>>,
                                          existing |-> <<>>, updateData |-> <<>>])
                /\ Respond(500, <<>>)
                /\ UNCHANGED dbClock
           ELSE /\ Tick
                /\ calls' = Put(calls, c, [pc |-> "update", id |-> id, data |-> data,
                                          existing |-> existing, updateData |-> updateData])
                /\ UNCHANGED response
        /\ UNCHANGED <<kbTable, comments>>
        /\ KbStep

\* an update that also marks the row as a manual entry
ApplyUpdateRetyped(row, updateData) ==
    [row EXCEPT !.date_added = updateData.date_added,
                !.question = updateData.question,
                !.answer = updateData.answer,
                !.url = updateData.url,
                !.categories = updateData.categories,
                !.type = "manual"]
\* prisma.customer_support_chatbot_data.update({ where: { id }, data: updateData })
ApplyUpdate(row, updateData) ==
    [row EXCEPT !.date_added = updateData.date_added,
                !.question = updateData.question,
                !.answer = updateData.answer,
                !.url = updateData.url,
                !.categories = updateData.categories]

updateKnowledgeBaseItemWrite(c) ==
    /\ c \in DOMAIN calls
    /\ calls[c].pc = "update"
    /\ LET id == calls[c].id
           item == ApplyUpdate(kbTable[id], calls[c].updateData)
       IN  /\ kbTable' = [kbTable EXCEPT ![id] = item]
           /\ Respond(200, <<FormatItem(item).categories>>)
    /\ calls' = [calls EXCEPT ![c].pc = "done"]
    /\ UNCHANGED <<comments, dbClock>>
    /\ KbStep

CommentCreateBodies ==
    [user_name : {<<"ann">>}, question_id : {1}, question_session_id : {<<"s">>},
     is_answer_in_db : {TRUE}, is_answer_in_context : {FALSE},
     issue_description : {<<"bad">>}, solution_suggestion : {Undefined}]
CommentUpdateBodies ==
    [user_name : {Undefined}, is_answer_in_db : {Undefined},
     is_answer_in_context : {Undefined}, is_bug_fixed : {Undefined, <<"true">>},
     issue_description : {Null}, solution_suggestion : {Undefined}]

\* data.x ?? null
OrNull(text) == IF text = Undefined \/ text = Null THEN Null ELSE text

\* POST /api/comments
createComment(data) ==
    LET id == NextId(comments)
        comment == [id |-> id, user_name |-> data.user_name,
                    question_id |-> data.question_id,
                    question_session_id |-> data.question_session_id,
                    is_answer_in_db |-> data.is_answer_in_db,
                    is_answer_in_context |-> data.is_answer_in_context,
                    is_bug_fixed |-> FALSE,
                    issue_description |-> OrNull(data.issue_description),
                    solution_suggestion |-> OrNull(data.solution_suggestion),
                    date_added |-> dbClock]    \* not passed: the column's default
    IN  /\ Cardinality(DOMAIN comments) < MaxComments
        /\ comments' = Put(comments, id, comment)
        /\ Respond(200, <<>>)
        /\ UNCHANGED <<kbTable, dbClock, calls>>
        /\ KbStep

Provided(value, old) == IF value = Undefined THEN old ELSE value
ProvidedFlag(value, old) == IF value = Undefined THEN old ELSE value = <<"true">>

\* PUT /api/comments/:id
updateComment(id, data) ==
    /\ IF id \in DOMAIN comments
       THEN LET old == comments[id]
                comment ==
                    [old EXCEPT
                       !.user_name = Provided(data.user_name, old.user_name),
                       !.is_answer_in_db = ProvidedFlag(data.is_answer_in_db, old.is_answer_in_db),
                       !.is_answer_in_context =
                           ProvidedFlag(data.is_answer_in_context, old.is_answer_in_context),
                       !.is_bug_fixed = ProvidedFlag(data.is_bug_fixed, old.is_bug_fixed),
                       !.issue_description =
                           Provided(data.issue_description, old.issue_description),
                       !.solution_suggestion =
                           Provided(data.solution_suggestion, old.solution_suggestion)]
            IN  /\ comments' = [comments EXCEPT ![id] = comment]
                /\ Respond(200, <<>>)
       ELSE /\ Respond(500, <<>>)
            /\ UNCHANGED comments
    /\ UNCHANGED <<kbTable, dbClock, calls>>
    /\ KbStep

\* the rows an earlier run of the scraper and of this backend left behind
KbInitialRows ==
    {<<>>,
     (1 :> [id |-> 1, question |-> <<"q0">>, answer |-> <<"a0">>, url |-> <<"u0">>,
            type |-> "scraped", categories |-> NullCategories, date_added |-> 0]),
     (1 :> [id |-> 1, question |-> <<"q0">>, answer |-> <<"a0">>, url |-> <<"manual-entry">>,
            type |-> "manual", categories |-> <<>>, date_added |-> 0])}

KbInit ==
    /\ kbTable \in KbInitialRows
    /\ comments = <<>>
    /\ dbClock = 0
    /\ calls = <<>>
    /\ response = [status |-> 0, categories |-> <<>>]

InitKb == KbInit /\ PageInit /\ PlannerIdle /\ MetricsIdle

NextKb ==
    \/ \E route \in {"metrics", "comments", "analytics/qa"} : GetRows(route)
    \/ GetKnowledgeBase
    \/ \E id \in 1..MaxRows : GetKnowledgeBaseItem(id)
    \/ \E data \in KbCreateBodies : createKnowledgeBaseItem(data)
    \/ \E c \in CallIds : \E id \in 1..MaxRows : \E data \in KbUpdateBodies :
           updateKnowledgeBaseItemRead(c, id, data)
    \/ \E c \in CallIds : updateKnowledgeBaseItemWrite(c)
    \/ \E data \in CommentCreateBodies : createComment(data)
    \/ \E id \in 1..MaxComments : \E data \in CommentUpdateBodies : updateComment(id, data)

SpecKb == InitKb /\ [][NextKb]_vars

\* the knowledge-base endpoints alone: the other endpoints leave kbTable and calls as they are
NextKbItems ==
    \/ GetKnowledgeBase
    \/ \E id \in 1..MaxRows : GetKnowledgeBaseItem(id)
    \/ \E data \in KbCreateBodies : createKnowledgeBaseItem(data)
    \/ \E c \in CallIds : \E id \in 1..MaxRows : \E data \in KbUpdateBodies :
           updateKnowledgeBaseItemRead(c, id, data)
    \/ \E c \in CallIds : updateKnowledgeBaseItemWrite(c)

SpecKbItems == InitKb /\ [][NextKbItems]_vars

\* a call that supplies only the question / only the answer of its item
OnlyQuestion(c) ==
    /\ calls[c].data.question # Undefined /\ calls[c].data.answer = Undefined
    /\ calls[c].data.url = Undefined /\ calls[c].data.categories = UndefinedCategories
OnlyAnswer(c) ==
    /\ calls[c].data.answer # Undefined /\ calls[c].data.question = Undefined
    /\ calls[c].data.url = Undefined /\ calls[c].data.categories = UndefinedCategories

\* C8: when two updateKnowledgeBaseItem calls on the same item, one supplying
\* only the question and the other only the answer, have both completed, the
\* stored item holds the new question and the new answer, whatever the order
\* in which their reads and writes were interleaved.
C8_DisjointUpdatesBothStored ==
    \A c \in DOMAIN calls : \A d \in DOMAIN calls :
        (/\ calls[c].pc = "done" /\ calls[d].pc = "done"
         /\ calls[c].id = calls[d].id
         /\ OnlyQuestion(c) /\ OnlyAnswer(d))
        => /\ kbTable[calls[c].id].question = Trim(calls[c].data.question)
           /\ kbTable[calls[c].id].answer = Trim(calls[d].data.answer)

\* C9: no request to an endpoint of the analytics backend creates, updates or
\* deletes a row of the knowledge-base table or of the comments table.
C9_BackendReadOnly ==
    [][kbTable' = kbTable /\ comments' = comments]_vars

\* the fields of a knowledge-base item and of a comment that a body leaves out
KbAbsentFields(data) ==
    {f \in {"question", "answer", "url"} : data[f] = Undefined}
      \cup (IF data.categories = UndefinedCategories THEN {"categories"} ELSE {})
CommentAbsentFields(data) ==
    {f \in {"user_name", "is_answer_in_db", "is_answer_in_context", "is_bug_fixed",
            "issue_description", "solution_suggestion"} : data[f] = Undefined}

\* what update writes for categories the body leaves out: existing.categories || []
NeverNull(categories) == IF categories = NullCategories THEN <<>> ELSE categories

KbUpdateFrame(c) ==
    LET id == calls[c].id
        Same(f) == IF f = "categories"      \* null and [] both mean no categories
                   THEN NeverNull(kbTable'[id][f]) = NeverNull(kbTable[id][f])
                   ELSE kbTable'[id][f] = kbTable[id][f]
    IN  /\ \A f \in KbAbsentFields(calls[c].data) : Same(f)
        /\ kbTable'[id].id = kbTable[id].id
        /\ kbTable'[id].type = kbTable[id].type
        /\ \A other \in DOMAIN kbTable \ {id} : kbTable'[other] = kbTable[other]
KbUpdateFrameSinceRead(c) ==
    LET id == calls[c].id
        Kept(f) == IF f = "categories" THEN NeverNull(kbTable[id][f]) ELSE kbTable[id][f]
    IN  /\ \A f \in KbAbsentFields(calls[c].data) : kbTable'[id][f] = Kept(f)
        /\ kbTable'[id].id = kbTable[id].id
        /\ kbTable'[id].type = kbTable[id].type
        /\ kbTable'[id].date_added = calls[c].updateData.date_added
        /\ \A other \in DOMAIN kbTable \ {id} : kbTable'[other] = kbTable[other]
CommentUpdateFrame(id, data) ==
    /\ DOMAIN comments' = DOMAIN comments
    /\ \A other \in DOMAIN comments \ {id} : comments'[other] = comments[other]
    /\ id \in DOMAIN comments =>
         /\ \A f \in CommentAbsentFields(data) : comments'[id][f] = comments[id][f]
         /\ comments'[id].id = comments[id].id
         /\ comments'[id].date_added = comments[id].date_added

EmptyInCreate(data) == Trim(data.question) = <<>> \/ Trim(data.answer) = <<>>
EmptyInUpdate(data) ==
    \/ data.question # Undefined /\ Trim(data.question) = <<>>
    \/ data.answer # Undefined /\ Trim(data.answer) = <<>>
EmptyCreateBodies == {data \in KbCreateBodies : EmptyInCreate(data)}
EmptyUpdateBodies == {data \in KbUpdateBodies : EmptyInUpdate(data)}

\* C22: no stored knowledge-base item has an empty question or answer; a
\* create or update whose question or answer is empty after trimming, and an
\* update of an id that does not exist, fails and leaves the table unchanged,
\* and a failed update never writes.
C22_NoEmptyQuestionOrAnswer ==
    /\ [](\A id \in DOMAIN kbTable :
            Trim(kbTable[id].question) # <<>> /\ Trim(kbTable[id].answer) # <<>>)
    /\ [][/\ \A data \in EmptyCreateBodies :
               createKnowledgeBaseItem(data)
                 => response'.status = 500 /\ kbTable' = kbTable
          /\ \A c \in DOMAIN calls' \ DOMAIN calls :
               \A id \in 1..MaxRows :
                 \A data \in IF id \in DOMAIN kbTable THEN EmptyUpdateBodies
                                                       ELSE KbUpdateBodies :
                   updateKnowledgeBaseItemRead(c, id, data)
                     => /\ response'.status = 500
                        /\ kbTable' = kbTable
                        /\ calls'[c].pc = "failed"
          /\ \A c \in DOMAIN calls :
               calls[c].pc = "failed" => calls'[c].pc = "failed" /\ ~updateKnowledgeBaseItemWrite(c)
         ]_vars

\* an update of a stored item failed, and the table still holds two items
C22_Witness ==
    /\ \E c \in DOMAIN calls : calls[c].pc = "failed" /\ calls[c].id \in DOMAIN kbTable
    /\ response.status = 500
    /\ Cardinality(DOMAIN kbTable) = MaxRows

(***************************************************************************)
(* Planning node (planning.py is not among the sources; the state machine  *)
(* is the one of section 4.4 of the specification, the maximum the one the *)
(* report on planning.py names).                                           *)
(***************************************************************************)
MaxRetrievalAttempts == 5
MaxIndexBuilds == 6     \* retrieval calls of one process lifetime
SubQueries ==
    {<<"s1">>, <<"s1", " ">>, <<"s2">>, <<"s3">>, <<"s4">>, <<"s5">>, <<"s6">>}

\* the text two sub-queries are compared by
Normalize(q) == Trim(q)
Range(s) == {s[i] : i \in DOMAIN s}
NormalizedIssued == {Normalize(q) : q \in Range(issuedQueries)}

\* retriever = BM25Retriever(logger, db, settings.index_file, top_k=5): the
\* passages are loaded and the index is built in every call
execute_single_task(query) ==
    /\ indexBuilds < MaxIndexBuilds
    /\ indexBuilds' = indexBuilds + 1

PlannerStep == UNCHANGED <<pageVars, kbVars, metricsVars, hourlyVars>>

BudgetLeftUnchecked == TRUE
BudgetLeft == retrieval_attempt_count < MaxRetrievalAttempts

\* 4.4 (2): a new question starts a cycle; the count is reset per new question
NewQuestion ==
    /\ plannerState = "AwaitingQuestion"
    /\ retrieval_attempt_count' = 0
    /\ issuedQueries' = <<>>
    /\ evidence' = FALSE
    /\ plannerState' \in {"ComposingAnswer", "Retrieving"}
    /\ UNCHANGED <<ticketStarted, indexBuilds>>
    /\ PlannerStep

AlreadyIssuedAsTyped(q) == q \in Range(issuedQueries)
AlreadyIssued(q) == Normalize(q) \in NormalizedIssued

\* 4.4 (3): one sub-query per cycle step; an identical query text is rejected
Retrieve(q, found) ==
    /\ plannerState = "Retrieving"
    /\ BudgetLeft
    /\ IF AlreadyIssued(q)
       THEN UNCHANGED <<retrieval_attempt_count, issuedQueries, evidence, indexBuilds>>
       ELSE /\ retrieval_attempt_count' = retrieval_attempt_count + 1
            /\ issuedQueries' = Append(issuedQueries, q)
            /\ execute_single_task(q)
            /\ evidence' = (evidence \/ found)
    /\ UNCHANGED <<plannerState, ticketStarted>>
    /\ PlannerStep

\* the planner asks a clarifying question instead of retrieving again
AskClarification ==
    /\ plannerState = "Retrieving"
    /\ BudgetLeft
    /\ plannerState' = "AwaitingClarificationReply"
    /\ UNCHANGED <<retrieval_attempt_count, issuedQueries, evidence, ticketStarted,
                   indexBuilds>>
    /\ PlannerStep

\* 4.4 (1): the reply to a pending clarification is not a fresh question
ClarificationReply ==
    /\ plannerState = "AwaitingClarificationReply"
    /\ plannerState' \in {"ComposingAnswer", "Retrieving"}
    /\ UNCHANGED <<retrieval_attempt_count, issuedQueries, evidence, ticketStarted,
                   indexBuilds>>
    /\ PlannerStep

\* 4.4 (4): the budget is exhausted or the planner judges the evidence sufficient
StopRetrieving ==
    /\ plannerState = "Retrieving"
    /\ plannerState' = IF evidence THEN "ComposingAnswer"
                       ELSE IF ~ticketStarted THEN "BuildingTicket"
                       ELSE "AwaitingTicketEdit"
    /\ ticketStarted' = (ticketStarted \/ ~evidence)
    /\ UNCHANGED <<retrieval_attempt_count, issuedQueries, evidence, indexBuilds>>
    /\ PlannerStep

\* 4.4 (5)
ComposeAnswer ==
    /\ plannerState = "ComposingAnswer"
    /\ plannerState' = "AwaitingQuestion"
    /\ UNCHANGED <<retrieval_attempt_count, issuedQueries, evidence, ticketStarted,
                   indexBuilds>>
    /\ PlannerStep

\* 4.4 (6)
SubmitTicket ==
    /\ plannerState = "BuildingTicket"
    /\ plannerState' = "AwaitingTicketEdit"
    /\ UNCHANGED <<retrieval_attempt_count, issuedQueries, evidence, ticketStarted,
                   indexBuilds>>
    /\ PlannerStep

\* 4.4 (6): the only accepted input is an edit instruction
EditInstruction ==
    /\ plannerState = "AwaitingTicketEdit"
    /\ UNCHANGED plannerVars
    /\ PlannerStep

InitPlanner == PlannerIdle /\ PageInit /\ KbIdle /\ MetricsIdle

NextPlanner ==
    \/ NewQuestion
    \/ \E q \in SubQueries : \E found \in BOOLEAN : Retrieve(q, found)
    \/ AskClarification
    \/ ClarificationReply
    \/ StopRetrieving
    \/ ComposeAnswer
    \/ SubmitTicket
    \/ EditInstruction

SpecPlanner == InitPlanner /\ [][NextPlanner]_vars

\* C10: retrieval_attempt_count never exceeds the maximum of 5 within a cycle,
\* and once it has reached the maximum the planner issues no further sub-query:
\* every step it then takes leaves the count and the issued queries alone until
\* it answers, escalates, or a new question resets the count.
C10_RetrievalBudget ==
    /\ [](retrieval_attempt_count <= MaxRetrievalAttempts)
    /\ [][(plannerState = "Retrieving"
            /\ retrieval_attempt_count = MaxRetrievalAttempts)
          => /\ retrieval_attempt_count' = retrieval_attempt_count
             /\ issuedQueries' = issuedQueries
             /\ plannerState' \in {"Retrieving", "ComposingAnswer", "BuildingTicket",
                                   "AwaitingTicketEdit"}]_vars

\* the budget was used up without adequate evidence and the planner escalated
C10_Witness ==
    /\ retrieval_attempt_count = MaxRetrievalAttempts
    /\ ~evidence
    /\ plannerState = "BuildingTicket"

\* C11: across the retrieval calls of one process lifetime the BM25 index is
\* constructed at most once.
C11_IndexBuiltOnce == indexBuilds <= 1

Sent == inflight'[Len(inflight')]
SendsFrom(handler) ==
    Len(inflight') = Len(inflight) + 1 /\ Sent.handler = handler

\* C13: a request made for the reply to an MCQ carries, in write-your-own mode,
\* exactly the trimmed free text and otherwise exactly the selected option; it
\* is never the sentinel write_your_own and never empty, and it is the reply to
\* one MCQ of the page.
C13_McqReplyPassedThrough ==
    [][SendsFrom("handleMcqSubmit") =>
        /\ Sent.message # WriteYourOwn
        /\ Sent.message # NullText
        /\ \E id \in DOMAIN mcqInteractions :
             /\ mcqAnswers'[id] = mcqAnswers[id] + 1
             /\ IF mcqInteractions[id].isCustomMode
                THEN Sent.message = Trim(mcqInteractions[id].customInput)
                ELSE Sent.message = mcqInteractions[id].selectedAnswer]_vars

\* a free text typed with a trailing blank was sent trimmed
C13_Witness ==
    \E k \in DOMAIN inflight :
        /\ inflight[k].handler = "handleMcqSubmit"
        /\ inflight[k].message \in {Trim(v) : v \in CustomTexts}
        /\ inflight[k].message \notin CustomTexts

\* every MCQ of the page has been answered, no ticket exists, no request is in
\* flight and the last message is the agent's text reply
ClarificationAnswered ==
    /\ inflight = <<>> /\ ~isLoading
    /\ DOMAIN mcqInteractions # {}
    /\ \A id \in DOMAIN mcqInteractions : mcqAnswers[id] > 0
    /\ ticketInteractions = <<>> /\ ~isChatDisabled
    /\ messages # <<>> /\ messages[Len(messages)].id = CurrentAgentMsg

\* C14: once the clarification has been answered and the agent's text reply has
\* finished, the free-text input is enabled again, and so is the Send button
\* as soon as the input holds a non-blank text.
C14_BackToAwaitingQuestion ==
    ClarificationAnswered =>
        /\ ~TextareaDisabled
        /\ (Trim(inputValue) # <<>> => ~SendDisabled)

\* the ticket fields whose text a step changes
ChangedTicketFields ==
    {p \in (DOMAIN ticketInteractions) \X TicketFields :
        GetField(ticketInteractions'[p[1]], p[2]) # GetField(ticketInteractions[p[1]], p[2])}

\* a step that rewrites a field of a ticket of the page
TicketFieldChanges ==
    /\ DOMAIN ticketInteractions' = DOMAIN ticketInteractions
    /\ Len(messages') = Len(messages)
    /\ ChangedTicketFields # {}

C16_SameSessionId ==
    [][/\ sessionId' = sessionId
       /\ Len(inflight') = Len(inflight) + 1 =>
            /\ Sent.session_id = sessionId
            /\ Sent.session_id # ""]_vars

\* after an ordinary message, an edit instruction is on its way under the
\* session id of the page
C16_Witness ==
    /\ Turns > 1
    /\ \E k \in DOMAIN inflight :
         /\ inflight[k].handler = "handleTicketModification"
         /\ inflight[k].session_id = sessionId
         /\ sessionId # ""

\* a step that handles a node event: the indicator takes the node's name
NodeEventHandled == botThoughts' \in NodeNames /\ botThoughts' # botThoughts

\* C17: handling a node event changes the bot-thoughts indicator and nothing
\* else of the page (no message, MCQ or ticket is added, changed or removed),
\* and the indicator is cleared whenever a request ends.
C17_NodeEventsInformational ==
    [][/\ NodeEventHandled =>
            UNCHANGED <<sessionId, messages, inputValue, isLoading, mcqInteractions,
                        ticketInteractions, isChatDisabled, currentMessageRef,
                        inflight, mcqAnswers>>
       /\ Len(inflight') < Len(inflight) => botThoughts' = NoThoughts]_vars

\* a node event was handled in a turn whose conversation already holds an MCQ
\* or a ticket
C17_Witness ==
    /\ botThoughts \in NodeNames
    /\ inflight # <<>>
    /\ McqMessageIds \cup TicketMessageIds # {}

\* the fetch rejects, the response is unusable, or the stream ends or breaks
RequestEnds == \E k \in 1..MaxInflight : StreamDone(k) \/ RequestFails(k)

\* the page when every request that was started gets its outcome
SpecLive == Spec /\ WF_vars(RequestEnds)

\* C23: whenever a request is running, a state follows in which no request is
\* running, isLoading is false and the bot-thoughts indicator is cleared,
\* whichever handler started it and whether it succeeded or failed.
C23_TurnEventuallyEnds ==
    (isLoading \/ inflight # <<>>)
        ~> (~isLoading /\ botThoughts = NoThoughts /\ inflight = <<>>)

\* a request of handleMcqSubmit failed after a node event and the turn is over
C23_Witness ==
    /\ ~isLoading /\ botThoughts = NoThoughts /\ inflight = <<>>
    /\ \E i \in 1..Len(messages) :
         /\ IsErrorMessage(messages[i])
         /\ messages[i].content = ErrorText("handleMcqSubmit")

\* C24: the messages of the conversation have pairwise distinct ids; in
\* particular at most one message carries the id current_agent_msg.
C24_DistinctMessageIds ==
    \A i \in 1..Len(messages) : \A j \in 1..Len(messages) :
        i # j => messages[i].id # messages[j].id

\* C25: no MCQ has had more than one answer sent to the agent.
C25_McqAnsweredAtMostOnce ==
    \A id \in DOMAIN mcqAnswers : mcqAnswers[id] <= 1

\* the handler the Send button's onClick names
SendHandler ==
    IF HasSubmittedTicket THEN "handleTicketModification" ELSE "handleSendMessage"

\* C26: pressing Enter without Shift in the input box does what clicking Send
\* does: where Send is enabled it starts a request of the handler Send would
\* run with the trimmed typed text, and where Send is disabled it sends nothing.
C26_EnterSameAsSend ==
    [][EnterKeyDown =>
         IF SendDisabled
         THEN inflight' = inflight /\ messages' = messages
         ELSE /\ Len(inflight') = Len(inflight) + 1
              /\ inflight'[Len(inflight')].handler = SendHandler
              /\ inflight'[Len(inflight')].message = Trim(inputValue)]_vars

\* C20: no knowledge-base response carries an empty categories array: an
\* item stored with no categories is returned with categories = null by GET
\* list, GET by id, POST and PUT.
C20_EmptyCategoriesReturnedAsNull ==
    \A i \in DOMAIN response.categories : response.categories[i] # <<>>

(***************************************************************************)
(* Analytics backend: the metrics queries over the chatbot's interactions. *)
(* The chatbot service appends the rows; the backend only reads them.      *)
(***************************************************************************)
RecentSessionsTake == 5
MaxInteractions == 7    \* rows of customer_support_chatbot_ai
MaxOtherTheme == 1      \* rows among them with the second theme

NoSession == ""         \* a session_id that Boolean() rejects
SessionNames == <<"s1", "s2", "s3", "s4", "s5", "s6">>
MainTheme == "t1"
OtherTheme == "t2"
NoTheme == ""           \* no theme in the query
RecentFilters == {[theme |-> NoTheme], [theme |-> MainTheme]}

MetricsStep == UNCHANGED <<pageVars, kbVars, plannerVars, hourlyVars>>

UsedSessions == {chatTable[i].session_id : i \in DOMAIN chatTable} \ {NoSession}
IsOtherTheme(row) == row.theme = OtherTheme

\* the chatbot stores one more interaction; session names are taken in order
RecordInteraction(session, theme) ==
    /\ Len(chatTable) < MaxInteractions
    /\ recentCall.pc # "done"      \* rows stored after the call returned are not followed
    /\ \/ session = NoSession
       \/ session \in UsedSessions
       \/ /\ Cardinality(UsedSessions) < Len(SessionNames)
          /\ session = SessionNames[Cardinality(UsedSessions) + 1]
    /\ theme \in {MainTheme, OtherTheme}
    /\ theme = OtherTheme => /\ Len(Filter(chatTable, IsOtherTheme)) < MaxOtherTheme
                             /\ session = SessionNames[1]
    /\ chatTable' = Append(chatTable, [id |-> Len(chatTable) + 1,
                                       session_id |-> session, theme |-> theme])
    /\ UNCHANGED <<supportRequests, recentCall, recentResult>>
    /\ MetricsStep

\* a support request is stored for a session
RecordSupportRequest(session) ==
    /\ session \in UsedSessions \ supportRequests
    /\ session = SessionNames[1]
    /\ recentCall.pc = "idle"
    /\ supportRequests' = supportRequests \cup {session}
    /\ UNCHANGED <<chatTable, recentCall, recentResult>>
    /\ MetricsStep

\* buildChatbotWhere: ...(theme ? { theme } : {})
Where(rows, filters) ==
    LET Matches(row) == filters.theme = NoTheme \/ row.theme = filters.theme
    IN  Filter(rows, Matches)

GroupKeys(rows) == {rows[i].session_id : i \in DOMAIN rows}
GroupMaxId(rows, key) ==
    Max({rows[i].id : i \in {j \in DOMAIN rows : rows[j].session_id = key}})

\* orderBy: { _max: { id: 'desc' } }
RECURSIVE OrderByMaxIdDesc(_, _)
OrderByMaxIdDesc(keys, rows) ==
    IF keys = {} THEN <<>>
    ELSE LET first == CHOOSE k \in keys :
                        \A o \in keys : GroupMaxId(rows, o) <= GroupMaxId(rows, k)
         IN  <<first>> \o OrderByMaxIdDesc(keys \ {first}, rows)

\* take: n
TakeLast(s, n) == SubSeq(s, IF Len(s) < n THEN 1 ELSE Len(s) - n + 1, Len(s))
Take(s, n) == SubSeq(s, 1, IF Len(s) < n THEN Len(s) ELSE n)
IsSessionId(key) == key # NoSession

\* fetchRecentSessions up to the await of the two findMany queries
fetchRecentSessionsGroupBy(filters) ==
    LET rows == Where(chatTable, filters)
        recentSessionGroups ==
            Take(OrderByMaxIdDesc(GroupKeys(rows), rows), RecentSessionsTake)
        sessionIds == Filter(recentSessionGroups, IsSessionId)
    IN  /\ recentCall.pc = "idle"
        /\ chatTable # <<>>
        /\ recentCall' = [pc |-> IF sessionIds = <<>> THEN "done" ELSE "findMany",
                          filters |-> filters, sessionIds |-> sessionIds,
                          seen |-> Len(chatTable)]
        /\ recentResult' = <<>>
        /\ UNCHANGED <<chatTable, supportRequests>>
        /\ MetricsStep

\* the two findMany queries, the sessionsMap loop and the returned array
fetchRecentSessionsAssemble ==
    LET sessionIds == recentCall.sessionIds
        Wanted(row) == \E k \in DOMAIN sessionIds : sessionIds[k] = row.session_id
        interactions == Filter(Where(chatTable, recentCall.filters), Wanted)
        Session(id) ==
            LET Mine(row) == row.session_id = id
                records == Filter(interactions, Mine)
                Id(row) == row.id
            IN  [sessionId |-> id,
                 theme |-> IF records = <<>> THEN NoTheme ELSE records[1].theme,
                 interactions |-> Map(records, Id),
                 hasSupportRequest |-> id \in supportRequests]
    IN  /\ recentCall.pc = "findMany"
        /\ recentResult' = Map(sessionIds, Session)
        /\ recentCall' = [recentCall EXCEPT !.pc = "done"]
        /\ UNCHANGED <<chatTable, supportRequests>>
        /\ MetricsStep

InitMetrics == MetricsIdle /\ PageInit /\ KbIdle /\ PlannerIdle

NextMetrics ==
    \/ \E session \in {NoSession} \cup Range(SessionNames) :
         \E theme \in {MainTheme, OtherTheme} : RecordInteraction(session, theme)
    \/ \E session \in Range(SessionNames) : RecordSupportRequest(session)
    \/ \E filters \in RecentFilters : fetchRecentSessionsGroupBy(filters)
    \/ fetchRecentSessionsAssemble

SpecMetrics == InitMetrics /\ [][NextMetrics]_vars

(***************************************************************************)
(* fetchHourlyMetrics.  A Date is a number of ticks; an hour is HourTicks  *)
(* ticks and a local day HoursPerDay hours.                                *)
(***************************************************************************)
MaxTime == 9
HourTicks == 2
HoursPerDay == 2
DayTicks == HourTicks * HoursPerDay
NoDate == -1                      \* an absent from / to
Times == 0..MaxTime
QuestionTimes == {1, 6}
SupportTimes == {3}
MaxQuestions == 2
MaxSupportRequests == 1
TimeRanges == {"24h", "30d"}

HourlyStep == UNCHANGED <<pageVars, kbVars, plannerVars, metricsVars>>

\* setMinutes(0, 0, 0) and setHours(0, 0, 0, 0)
StartOfHour(t) == t - (t % HourTicks)
StartOfDay(t) == t - (t % DayTicks)

RECURSIVE Ranges(_, _, _)
Ranges(current, end, step) ==
    IF current < end THEN <<current>> \o Ranges(current + step, end, step) ELSE <<>>
generateHourRanges(from, to) ==
    IF from = NoDate \/ to = NoDate THEN <<>>
    ELSE Ranges(StartOfHour(from), StartOfHour(to) + HourTicks, HourTicks)
generateDayRanges(from, to) ==
    IF from = NoDate \/ to = NoDate THEN <<>>
    ELSE Ranges(StartOfDay(from), StartOfDay(to) + DayTicks, DayTicks)

\* year-month-day hour:00:00 and year-month-day of a Date
formatHourForGrouping(t) == <<t \div DayTicks, (t % DayTicks) \div HourTicks>>
formatDayForGrouping(t) == <<t \div DayTicks>>

Min(S) == CHOOSE x \in S : \A y \in S : x <= y

\* a question or a support request is stored
AskQuestion(t) ==
    /\ Len(askedAt) < MaxQuestions
    /\ hourlyCall.pc = "idle"
    /\ askedAt' = Append(askedAt, t)
    /\ UNCHANGED <<supportAddedAt, hourlyCall, hourlyResult>>
    /\ HourlyStep
AddSupportRequest(t) ==
    /\ Len(supportAddedAt) < MaxSupportRequests
    /\ hourlyCall.pc = "idle"
    /\ supportAddedAt' = Append(supportAddedAt, t)
    /\ UNCHANGED <<askedAt, hourlyCall, hourlyResult>>
    /\ HourlyStep

\* fetchHourlyMetrics up to the time ranges: from, to, toQuery and timeRanges.
\* Without filters.from the earliest row of each table is read, and the
\* d !== null filter keeps the undefined of an empty table, on which
\* d.getTime() throws.
fetchHourlyMetricsRanges(filters, clock) ==
    LET aggregateByDay == filters.timeRange = "30d" \/ filters.timeRange = "all"
        to0 == IF filters.to = NoDate THEN clock ELSE filters.to
        throws == filters.from = NoDate /\ (askedAt = <<>> \/ supportAddedAt = <<>>)
        from0 == IF filters.from # NoDate THEN filters.from
                 ELSE Min(Range(askedAt) \cup Range(supportAddedAt))
        from == IF aggregateByDay THEN StartOfDay(from0) ELSE StartOfHour(from0)
        toQuery == IF aggregateByDay THEN StartOfDay(to0) + DayTicks - 1
                   ELSE StartOfHour(to0) + HourTicks - 1
        timeRanges == IF aggregateByDay
                      THEN generateDayRanges(from, StartOfDay(to0) + DayTicks)
                      ELSE generateHourRanges(from, StartOfHour(to0) + HourTicks)
    IN  /\ hourlyCall.pc = "idle"
        /\ \A i \in DOMAIN askedAt : askedAt[i] <= clock
        /\ \A i \in DOMAIN supportAddedAt : supportAddedAt[i] <= clock
        /\ hourlyResult' = <<>>
        /\ hourlyCall' =
             IF throws THEN [pc |-> "failed", filters |-> filters]
             ELSE [pc |-> IF timeRanges = <<>> THEN "done" ELSE "findMany",
                   filters |-> filters, aggregateByDay |-> aggregateByDay,
                   givenFrom |-> from0, givenTo |-> to0,
                   from |-> from, toQuery |-> toQuery, timeRanges |-> timeRanges]
        /\ UNCHANGED <<askedAt, supportAddedAt>>
        /\ HourlyStep

\* the two findMany queries, the timeMap and the returned array
fetchHourlyMetricsCount ==
    LET byDay == hourlyCall.aggregateByDay
        timeRanges == hourlyCall.timeRanges
        Key(t) == IF byDay THEN formatDayForGrouping(StartOfDay(t))
                  ELSE formatHourForGrouping(StartOfHour(t))
        InQuery(t) == hourlyCall.from <= t /\ t <= hourlyCall.toQuery
        questionsData == Filter(askedAt, InQuery)
        supportData == Filter(supportAddedAt, InQuery)
        Metric(timePeriod) ==
            LET Here(t) == Key(t) = Key(timePeriod)
            IN  [hour |-> IF byDay THEN StartOfDay(timePeriod) ELSE timePeriod,
                 questions |-> Len(Filter(questionsData, Here)),
                 supportRequests |-> Len(Filter(supportData, Here))]
    IN  /\ hourlyCall.pc = "findMany"
        /\ hourlyResult' = Map(timeRanges, Metric)
        /\ hourlyCall' = [hourlyCall EXCEPT !.pc = "done"]
        /\ UNCHANGED <<askedAt, supportAddedAt>>
        /\ HourlyStep

HourlyFilters == [from : Times \cup {NoDate}, to : Times \cup {NoDate}, timeRange : TimeRanges]

InitHourly == MetricsIdle /\ PageInit /\ KbIdle /\ PlannerIdle

NextHourly ==
    \/ \E t \in QuestionTimes : AskQuestion(t)
    \/ \E t \in SupportTimes : AddSupportRequest(t)
    \/ \E filters \in HourlyFilters : \E clock \in Times :
         fetchHourlyMetricsRanges(filters, clock)
    \/ fetchHourlyMetricsCount

SpecHourly == InitHourly /\ [][NextHourly]_vars

\* the bucket of a Date under the call's aggregation
BucketTicks == IF hourlyCall.aggregateByDay THEN DayTicks ELSE HourTicks
Bucket(t) == t - (t % BucketTicks)
HasData(bucket) ==
    \/ \E i \in DOMAIN askedAt : Bucket(askedAt[i]) = bucket
    \/ \E i \in DOMAIN supportAddedAt : Bucket(supportAddedAt[i]) = bucket

\* C19: for a range with from <= to, fetchHourlyMetrics returns consecutive
\* buckets without gaps, the first the bucket containing from, the last the
\* bucket containing to, and every bucket without data has all counters zero.
C19_BucketsCoverRange ==
    (hourlyCall.pc = "done" /\ hourlyCall.givenFrom <= hourlyCall.givenTo) =>
        /\ hourlyResult # <<>>
        /\ hourlyResult[1].hour = Bucket(hourlyCall.givenFrom)
        /\ hourlyResult[Len(hourlyResult)].hour = Bucket(hourlyCall.givenTo)
        /\ \A i \in 1..(Len(hourlyResult) - 1) :
             hourlyResult[i + 1].hour = hourlyResult[i].hour + BucketTicks
        /\ \A i \in DOMAIN hourlyResult :
             ~HasData(hourlyResult[i].hour)
               => hourlyResult[i].questions = 0 /\ hourlyResult[i].supportRequests = 0

\* the sessions among the rows the groupBy query saw, and their latest interaction
SeenRows == Where(SubSeq(chatTable, 1, recentCall.seen), recentCall.filters)
SeenSessions == GroupKeys(SeenRows) \ {NoSession}
Returned == {recentResult[i].sessionId : i \in DOMAIN recentResult}

====
